---- MODULE Spec2Model ----
(***************************************************************************)
(* A model of shadertoy-render.py: the shader fetch with its single        *)
(* fallback (the __main__ block), the construction of RenderingCanvas      *)
(* (sampler declarations, static uniforms, texture loading, show) and the  *)
(* event handlers the windowing library dispatches while the application   *)
(* loop runs (on_timer, on_draw, on_mouse_click, on_mouse_move, on_resize).*)
(*                                                                         *)
(* Time is counted in units of 1/Unit second, Unit being the least common  *)
(* multiple of the modelled rates, so that 1.0 / rate is a whole number of *)
(* units.  The modelled rates are 1 and 2, for which 1.0 / rate and every  *)
(* sum of such steps are exact in binary floating point as well.           *)
(***************************************************************************)
EXTENDS Integers, Sequences, FiniteSets, TLC

VARIABLES
    pc,                 \* position of the __main__ script
    args,               \* parsed command line: rate, duration, size
    pixel_scale,        \* physical pixels per logical pixel of the display
    requests,           \* requests issued so far, by endpoint
    primaryOutcome,     \* what the primary request produced
    error,              \* the uncaught exception that ended the run, if any
    renderpass,         \* s['renderpass'][0]: the sequence of its inputs
    samplers,           \* sampler declarations spliced into the fragment source
    k,                  \* index of the next input of the texture loop
    textures,           \* number of gloo.Texture2D objects created
    iChannel,           \* program['iChannel<chan>']
    iChannelResolution, \* program['iChannelResolution[<chan>]']
    iMouse,             \* program['iMouse']
    iGlobalTime,        \* program['iGlobalTime'], in units
    iResolution,        \* program['iResolution']
    size,               \* self.size: logical window size
    shown,              \* self.show() has been called
    updatePending,      \* self.update() requested a redraw not yet dispatched
    press_event,        \* position of the press of the drag in progress
    ticks,              \* timer events handled
    frames,             \* program.draw() calls
    lastFrameTime       \* iGlobalTime at the last program.draw()

vars == <<pc, args, pixel_scale, requests, primaryOutcome, error, renderpass,
          samplers, k, textures, iChannel, iChannelResolution, iMouse,
          iGlobalTime, iResolution, size, shown, updatePending, press_event,
          ticks, frames, lastFrameTime>>

None == "None"

(* No uncaught exception; one is the pair <<where it was raised, what>> *)
NoError == <<>>

----------------------------------------------------------------------------
(* Bounds of the model *)

MaxInputs == 2      \* longest list of inputs of a render pass
MaxDuration == 2    \* largest --duration, in units
MaxFrames == 2      \* frames drawn by a run with no duration
MaxTicks == 2       \* timer events counted

(* Inputs of the program *)

Rates == {1, 2}
Unit == CHOOSE u \in 1..4 :
            /\ \A r \in Rates : u % r = 0
            /\ \A v \in 1..(u - 1) : \E r \in Rates : v % r # 0
(* --duration: <<>> when the option is absent, else <<D>>, D in units *)
Durations == {<<>>} \cup { <<d>> : d \in (0 - 1)..MaxDuration }
Sizes == {<<2, 3>>, <<3, 2>>}
PixelScales == {1, 2}
MousePos == {<<0, 0>>, <<1, 2>>}

NumChannels == 4

Input(t, chan, src) == [ctype |-> t, channel |-> chan, src |-> src]
InputKinds == { Input("texture", 0, "a.jpg"), Input("texture", 4, "b.png"),
                Input("music", 2, "m.mp3"), Input("cubemap", 3, "cube_0.png"),
                Input("keyboard", 1, "kbd") }

DistinctChannels(p) ==
    \A a, b \in 1..Len(p) : a # b => p[a].channel # p[b].channel
RenderPasses ==
    { p \in UNION { [1..n -> InputKinds] : n \in 0..MaxInputs } :
        DistinctChannels(p) }

(* imageio.imread: the decoded image of each source, width x height with   *)
(* c colour components.                                                    *)
imread(src) == IF src = "a.jpg" THEN [w |-> 2, h |-> 1, c |-> 3]
                                ELSE [w |-> 3, h |-> 3, c |-> 4]
(* img.shape of the array imread returns: rows, columns, components *)
shape(img) == <<img.h, img.w, img.c>>
Texture2D(img) == [data |-> img, interpolation |-> "nearest", wrapping |-> "clamp_to_edge"]

(* A uniform or attribute that may not have been given a value *)
Unset == <<>>
Set(v) == <<v>>
IsSet(u) == Len(u) = 1
Val(u) == u[1]

Channels == { i.channel : i \in InputKinds } \cup (0..(NumChannels - 1))

----------------------------------------------------------------------------
Init ==
    /\ pc = "fetch"
    /\ args \in [rate : Rates, duration : Durations, size : Sizes]
    /\ pixel_scale \in PixelScales
    /\ requests = [primary |-> 0, fallback |-> 0, texture |-> 0]
    /\ primaryOutcome = None
    /\ error = NoError
    /\ renderpass = <<>>
    /\ samplers = <<>>
    /\ k = 0
    /\ textures = 0
    /\ iChannel = [c \in Channels |-> Unset]
    /\ iChannelResolution = [c \in Channels |-> Unset]
    /\ iMouse = Unset
    /\ iGlobalTime = 0
    /\ iResolution = Unset
    /\ size = <<0, 0>>
    /\ shown = FALSE
    /\ updatePending = FALSE
    /\ press_event = Unset
    /\ ticks = 0
    /\ frames = 0
    /\ lastFrameTime = 0

----------------------------------------------------------------------------
(* __main__: the fetch *)

PrimaryOutcomes == {"ok", "no_shader_key", "not_an_object", "unparsable", "transport"}
FallbackOutcomes == {"ok", "empty", "unparsable", "transport"}

(* Mutant of CaughtKeyError: a handler that catches every exception *)
CaughtAnyException(outcome) == outcome # "ok"

(* except KeyError: of the failures of the try block only j['Shader'] on an *)
(* object without that key raises KeyError.                                 *)
CaughtKeyError(outcome) == outcome = "no_shader_key"

Raise(where, what) ==
    /\ pc' = "failed"
    /\ error' = <<where, what>>

FetchPrimary ==
    /\ pc = "fetch"
    /\ \E outcome \in PrimaryOutcomes :
        /\ requests' = [requests EXCEPT !.primary = @ + 1]
        /\ primaryOutcome' = outcome
        /\ IF outcome = "ok"
              THEN /\ \E p \in RenderPasses : renderpass' = p
                   /\ pc' = "construct"
                   /\ error' = error
              ELSE IF CaughtKeyError(outcome)
                      THEN /\ pc' = "fallback"
                           /\ UNCHANGED <<renderpass, error>>
                      ELSE /\ Raise("primary", outcome)
                           /\ UNCHANGED renderpass
    /\ UNCHANGED <<args, pixel_scale, samplers, k, textures, iChannel,
                   iChannelResolution, iMouse, iGlobalTime, iResolution, size,
                   shown, updatePending, press_event, ticks, frames,
                   lastFrameTime>>

FetchFallback ==
    /\ pc = "fallback"
    /\ \E outcome \in FallbackOutcomes :
        /\ requests' = [requests EXCEPT !.fallback = @ + 1]
        /\ IF outcome = "ok"
              THEN /\ \E p \in RenderPasses : renderpass' = p
                   /\ pc' = "construct"
                   /\ error' = error
              ELSE /\ Raise("fallback", outcome)
                   /\ UNCHANGED renderpass
    /\ UNCHANGED <<args, pixel_scale, primaryOutcome, samplers, k, textures,
                   iChannel, iChannelResolution, iMouse, iGlobalTime,
                   iResolution, size, shown, updatePending, press_event, ticks,
                   frames, lastFrameTime>>

----------------------------------------------------------------------------
(* RenderingCanvas.__init__ *)

(* The first loop over the inputs: the sampler declaration of each input,  *)
(* none for music, and an exception for a type it does not know.           *)
RECURSIVE SamplerDecls(_, _)
SamplerDecls(inputs, i) ==
    IF i > Len(inputs) THEN [ok |-> TRUE, decls |-> <<>>]
    ELSE LET t == inputs[i].ctype
             chan == inputs[i].channel
             more == SamplerDecls(inputs, i + 1)
         IN IF t = "music" THEN more
            ELSE IF t \notin {"texture", "cubemap"}
                    THEN [ok |-> FALSE, decls |-> <<>>]
                    ELSE [ok |-> more.ok,
                          decls |-> <<[samp |-> IF t = "texture" THEN "sampler2D"
                                                               ELSE "samplerCube",
                                       chan |-> chan]>> \o more.decls]

physical_size(sz) == <<sz[1] * pixel_scale, sz[2] * pixel_scale>>

activate_zoom(sz) ==
    iResolution' = Set(<<physical_size(sz)[1], physical_size(sz)[2], 0>>)

Construct ==
    /\ pc = "construct"
    /\ size' = args.size
    /\ LET d == SamplerDecls(renderpass, 1)
       IN IF ~d.ok
             THEN /\ Raise("samplers", "Unknown sampler type")
                  /\ UNCHANGED <<samplers, iMouse, iGlobalTime, iResolution, k>>
             ELSE /\ samplers' = d.decls
                  /\ iMouse' = Set(<<0, 0, 0, 0>>)
                  /\ iGlobalTime' = 0
                  /\ activate_zoom(args.size)
                  /\ k' = 1
                  /\ pc' = "load"
                  /\ error' = error
    /\ UNCHANGED <<args, pixel_scale, requests, primaryOutcome, renderpass,
                   textures, iChannel, iChannelResolution, shown,
                   updatePending, press_event, ticks, frames, lastFrameTime>>

(* Mutant of Branch: a cubemap input skipped the way a music input is *)
BranchCubemapSkipped(t) == IF t = "texture" THEN "load" ELSE "skip"

(* The if / elif chain of the second loop: what it does with an input of   *)
(* type t.  (A type that matches no branch never gets here: the first loop *)
(* has raised on it.)                                                      *)
Branch(t) == IF t = "texture" THEN "load"
             ELSE IF t = "cubemap" THEN "raise"
             ELSE "skip"

(* Mutant of LoopDone: self.show() indented into the loop *)
LoopDoneAfterFirstInput == k > 1 \/ k > Len(renderpass)

(* The second loop has gone through every input *)
LoopDone == k > Len(renderpass)

(* One iteration of the second loop over the inputs *)
BindTexture(chan, img) ==
    LET tex == [Texture2D(img) EXCEPT !.interpolation = "linear",
                                      !.wrapping = "repeat"]
    IN /\ textures' = textures + 1
       /\ iChannel' = [iChannel EXCEPT ![chan] = Set(tex)]
       /\ iChannelResolution' = [iChannelResolution EXCEPT ![chan] = Set(shape(img))]

LoadInput ==
    /\ pc = "load"
    /\ k <= Len(renderpass)
    /\ LET t == renderpass[k].ctype
           chan == renderpass[k].channel
           src == renderpass[k].src
       IN \/ /\ Branch(t) = "load"
             /\ requests' = [requests EXCEPT !.texture = @ + 1]
             /\ \/ /\ BindTexture(chan, imread(src))
                   /\ k' = k + 1
                   /\ UNCHANGED <<pc, error>>
                \/ /\ Raise("textures", "imread failed")
                   /\ UNCHANGED <<k, textures, iChannel, iChannelResolution>>
          \/ /\ Branch(t) = "raise"
             /\ Raise("textures", "TODO: TextureCubeMap not implemented!")
             /\ UNCHANGED <<k, requests, textures, iChannel, iChannelResolution>>
          \/ /\ Branch(t) = "skip"
             /\ k' = k + 1
             /\ UNCHANGED <<pc, error, requests, textures, iChannel,
                            iChannelResolution>>
    /\ UNCHANGED <<args, pixel_scale, primaryOutcome, renderpass, samplers,
                   iMouse, iGlobalTime, iResolution, size, shown,
                   updatePending, press_event, ticks, frames, lastFrameTime>>

(* self.show(), then canvas.app.run() *)
Show ==
    /\ pc = "load"
    /\ LoopDone
    /\ shown' = TRUE
    /\ pc' = "running"
    /\ UNCHANGED <<args, pixel_scale, requests, primaryOutcome, error,
                   renderpass, samplers, k, textures, iChannel,
                   iChannelResolution, iMouse, iGlobalTime, iResolution, size,
                   updatePending, press_event, ticks, frames, lastFrameTime>>

----------------------------------------------------------------------------
(* The handlers, dispatched by the application loop *)

HasDuration == IsSet(args.duration)
Duration == Val(args.duration)

(* Mutants of Step: the quotient taken on integers; the rate multiplied *)
StepIntegerDivision(rate) == Unit * (1 \div rate)
StepTimesRate(rate) == Unit * rate

(* 1.0 / self._rate, in units *)
Step(rate) == Unit \div rate

(* Mutant of DurationReached: a strict comparison *)
DurationExceeded(t) == HasDuration /\ t > Duration

(* self._duration is not None and self.program['iGlobalTime'] >= self._duration *)
DurationReached(t) == HasDuration /\ t >= Duration

on_timer ==
    /\ pc = "running"
    /\ ticks < MaxTicks
    /\ ticks' = ticks + 1
    /\ updatePending' = TRUE
    /\ UNCHANGED <<pc, args, pixel_scale, requests, primaryOutcome, error,
                   renderpass, samplers, k, textures, iChannel,
                   iChannelResolution, iMouse, iGlobalTime, iResolution, size,
                   shown, press_event, frames, lastFrameTime>>

(* A draw event: the redraw a timer tick asked for, or one the window      *)
(* system asks for on its own (the window is exposed or resized).          *)
on_draw ==
    /\ pc = "running"
    /\ HasDuration \/ frames < MaxFrames
    /\ updatePending' = FALSE
    /\ iGlobalTime' = iGlobalTime + Step(args.rate)
    /\ frames' = frames + 1
    /\ lastFrameTime' = iGlobalTime'
    /\ pc' = IF DurationReached(iGlobalTime') THEN "stopped" ELSE pc
    /\ UNCHANGED <<args, pixel_scale, requests, primaryOutcome, error,
                   renderpass, samplers, k, textures, iChannel,
                   iChannelResolution, iMouse, iResolution, size, shown,
                   press_event, ticks>>

on_mouse_click(pos) ==
    /\ pc = "running"
    /\ iMouse' = Set(pos \o pos)
    /\ UNCHANGED <<pc, args, pixel_scale, requests, primaryOutcome, error,
                   renderpass, samplers, k, textures, iChannel,
                   iChannelResolution, iGlobalTime, iResolution, size, shown,
                   updatePending, press_event, ticks, frames, lastFrameTime>>

(* The window library's record of the press that starts a drag *)
MousePress(pos) ==
    /\ pc = "running"
    /\ ~IsSet(press_event)
    /\ press_event' = Set(pos)
    /\ UNCHANGED <<pc, args, pixel_scale, requests, primaryOutcome, error,
                   renderpass, samplers, k, textures, iChannel,
                   iChannelResolution, iMouse, iGlobalTime, iResolution, size,
                   shown, updatePending, ticks, frames, lastFrameTime>>

MouseRelease ==
    /\ pc = "running"
    /\ IsSet(press_event)
    /\ press_event' = Unset
    /\ UNCHANGED <<pc, args, pixel_scale, requests, primaryOutcome, error,
                   renderpass, samplers, k, textures, iChannel,
                   iChannelResolution, iMouse, iGlobalTime, iResolution, size,
                   shown, updatePending, ticks, frames, lastFrameTime>>

is_dragging == IsSet(press_event)

(* Mutant of DragMouse: the press position left in window coordinates *)
DragMousePressNotFlipped(pos, press, sz) ==
    <<pos[1], sz[2] - pos[2], press[1], press[2]>>

(* imouse = (x, self.size[1] - y, px, self.size[1] - py) *)
DragMouse(pos, press, sz) ==
    <<pos[1], sz[2] - pos[2], press[1], sz[2] - press[2]>>

on_mouse_move(pos) ==
    /\ pc = "running"
    /\ iMouse' = IF is_dragging THEN Set(DragMouse(pos, Val(press_event), size))
                                ELSE iMouse
    /\ UNCHANGED <<pc, args, pixel_scale, requests, primaryOutcome, error,
                   renderpass, samplers, k, textures, iChannel,
                   iChannelResolution, iGlobalTime, iResolution, size, shown,
                   updatePending, press_event, ticks, frames, lastFrameTime>>

on_resize(sz) ==
    /\ pc = "running"
    /\ sz # size
    /\ size' = sz
    /\ activate_zoom(sz)
    /\ UNCHANGED <<pc, args, pixel_scale, requests, primaryOutcome, error,
                   renderpass, samplers, k, textures, iChannel,
                   iChannelResolution, iMouse, iGlobalTime, shown,
                   updatePending, press_event, ticks, frames, lastFrameTime>>

(* except KeyboardInterrupt: pass *)
KeyboardInterrupt ==
    /\ pc = "running"
    /\ pc' = "interrupted"
    /\ UNCHANGED <<args, pixel_scale, requests, primaryOutcome, error,
                   renderpass, samplers, k, textures, iChannel,
                   iChannelResolution, iMouse, iGlobalTime, iResolution, size,
                   shown, updatePending, press_event, ticks, frames,
                   lastFrameTime>>

----------------------------------------------------------------------------
Next ==
    \/ FetchPrimary
    \/ FetchFallback
    \/ Construct
    \/ LoadInput
    \/ Show
    \/ on_timer
    \/ on_draw
    \/ \E pos \in MousePos : on_mouse_click(pos)
    \/ \E pos \in MousePos : MousePress(pos)
    \/ MouseRelease
    \/ \E pos \in MousePos : on_mouse_move(pos)
    \/ \E sz \in Sizes : on_resize(sz)
    \/ KeyboardInterrupt

Spec == Init /\ [][Next]_vars

(* The application loop keeps dispatching the timer and the draw events.  *)
(* The runs are those on a display of pixel scale 1 with one --size: the   *)
(* stop reads neither.                                                     *)
FairInit == Init /\ pixel_scale = 1 /\ args.size = <<2, 3>>
FairSpec == FairInit /\ [][Next]_vars /\ WF_vars(on_timer) /\ WF_vars(on_draw)

----------------------------------------------------------------------------
(* Properties *)

Rate == args.rate
InitDone == pc \in {"running", "stopped", "interrupted"}
InputsOf(p, types) == { i \in 1..Len(p) : p[i].ctype \in types }
ValidChannels == 0..(NumChannels - 1)

(* The least N with N / Rate >= Duration *)
LeastTicks ==
    CHOOSE n \in 0..(MaxDuration + 1) :
        /\ n * Unit >= Duration * Rate
        /\ \A m \in 0..(n - 1) : m * Unit < Duration * Rate

(* C1, as stated: with a duration D configured, once a frame has been      *)
(* drawn the run has stopped exactly when iGlobalTime >= D, and no frame   *)
(* is drawn with iGlobalTime > D + 1/R.                                    *)
C1_StopAtDuration ==
    (HasDuration /\ frames > 0) =>
        /\ lastFrameTime * Rate <= Duration * Rate + Unit
        /\ (iGlobalTime >= Duration) <=> (pc = "stopped")
        /\ pc = "stopped" => lastFrameTime = iGlobalTime

(* C1, amended: the same for a duration D >= 0.                            *)
C1_StopAtNonNegativeDuration ==
    (HasDuration /\ Duration >= 0 /\ frames > 0) =>
        /\ lastFrameTime * Rate <= Duration * Rate + Unit
        /\ (iGlobalTime >= Duration) <=> (pc = "stopped")
        /\ pc = "stopped" => lastFrameTime = iGlobalTime

C1_Witness ==
    /\ pc = "stopped"
    /\ Duration > 0
    /\ frames = 2
    /\ lastFrameTime = Duration

(* C2, as stated: after N timer ticks iGlobalTime is N * (1/R).            *)
C2_ClockCountsTicks == iGlobalTime * Rate = ticks * Unit

(* C2, amended: iGlobalTime is M * (1/R), M the number of draw events      *)
(* handled; a timer tick, a resize or a mouse event leaves it alone.       *)
C2_ClockCountsDraws == iGlobalTime * Rate = frames * Unit

C2_Witness ==
    /\ frames = 2
    /\ ticks = 1
    /\ Rate = 2
    /\ size # args.size
    /\ IsSet(press_event)

(* C3: once the textures are loaded, iChannelResolution[i] of a channel i  *)
(* in 0..3 bound to a texture input is (width, height, 0) of the image     *)
(* decoded for that input.                                                 *)
C3_ChannelResolution ==
    InitDone =>
        \A i \in InputsOf(renderpass, {"texture"}) :
            renderpass[i].channel \in ValidChannels =>
                iChannelResolution[renderpass[i].channel] =
                    Set(<<imread(renderpass[i].src).w, imread(renderpass[i].src).h, 0>>)

C5_SingleFallback ==
    /\ requests.primary = (IF pc = "fetch" THEN 0 ELSE 1)
    /\ requests.fallback <= 1
    /\ (requests.fallback = 1 \/ pc = "fallback") => primaryOutcome = "no_shader_key"
    /\ pc = "fallback" => requests.fallback = 0
    /\ primaryOutcome \in {"not_an_object", "unparsable", "transport"} =>
           /\ pc = "failed"
           /\ error = <<"primary", primaryOutcome>>
           /\ requests = [primary |-> 1, fallback |-> 0, texture |-> 0]
    /\ (pc = "failed" /\ error[1] = "fallback") =>
           requests = [primary |-> 1, fallback |-> 1, texture |-> 0]

C5_Witness ==
    /\ pc = "failed"
    /\ error = <<"fallback", "transport">>
    /\ requests.fallback = 1

(* C6: when the canvas starts running, before any tick, draw or resize,    *)
(* iResolution is the size given by --size, (W, H, 0), and iGlobalTime 0.  *)
C6_InitialUniforms ==
    (pc = "running" /\ ticks = 0 /\ frames = 0 /\ size = args.size) =>
        /\ iResolution = Set(<<args.size[1], args.size[2], 0>>)
        /\ iGlobalTime = 0

C9_AtMostFourChannels ==
    /\ textures <= NumChannels
    /\ Len(samplers) <= NumChannels
    /\ \A i \in 1..Len(samplers) : samplers[i].chan \in ValidChannels
    /\ \A c \in Channels :
           (IsSet(iChannel[c]) \/ IsSet(iChannelResolution[c])) => c \in ValidChannels

(* C10: a mouse move during a drag sets iMouse to (x, H - y, pressX,       *)
(* H - pressY), H the current window height; one with no button held       *)
(* leaves iMouse alone; none changes iGlobalTime, iResolution or a bound   *)
(* texture.                                                                *)
C10_MouseMove ==
    [][\A pos \in MousePos :
          on_mouse_move(pos) =>
              /\ iMouse' = IF IsSet(press_event)
                              THEN Set(<<pos[1], size[2] - pos[2],
                                         Val(press_event)[1],
                                         size[2] - Val(press_event)[2]>>)
                              ELSE iMouse
              /\ UNCHANGED <<iGlobalTime, iResolution, iChannel,
                             iChannelResolution>>]_vars

C10_Witness ==
    /\ press_event = Set(<<1, 2>>)
    /\ size # args.size
    /\ iMouse = Set(<<0, size[2], 1, size[2] - 2>>)
====
